---- MODULE Spec2Model ----
(***************************************************************************)
(* Model of deepsleep/deepsleep.py: the host-side driver of the deep-sleep *)
(* companion chip.  The driver talks to the chip over a single-wire UART:  *)
(* a break, the sync byte 0x55 and a 4-byte frame {address, and, or, xor}. *)
(* The chip applies ((current AND and) OR or) XOR xor to the addressed     *)
(* register.  The line is single-wire, so the host's receiver sees its own *)
(* break (as a 0 byte), the sync byte and the frame, followed by the       *)
(* resulting register value: 7 bytes, the value at index 6.                *)
(*                                                                         *)
(* The calibration factor clk_cal_factor is a float in the code; the model *)
(* holds it exactly, as the integer numerator of a fraction whose          *)
(* denominator is EXP_RTC_PERIOD (the factor 1 is EXP_RTC_PERIOD).         *)
(***************************************************************************)
EXTENDS Integers, Sequences, FiniteSets, TLC

\* ---------------------------------------------------------------- constants

PIN_MASK == 10
TIMER_WAKE == 16
POWER_ON_WAKE == 32

WPUA_ADDR == 9
OPTION_REG_ADDR == 14
IOCAP_ADDR == 26
IOCAN_ADDR == 27
WAKE_STATUS_ADDR == 64
MIN_BAT_ADDR == 65
SLEEP_TIME_ADDR == 66
CTRL_0_ADDR == 69
EXP_RTC_PERIOD == 7000

\* The sync byte of _start, the capture bound of calibrate and the break length.
SYNC_BYTE == 85
PULSES_MAX == 50
BREAK_LEN == 20

\* The registers of the chip the driver names.
Addrs ==
  {WPUA_ADDR, OPTION_REG_ADDR, IOCAP_ADDR, IOCAN_ADDR, WAKE_STATUS_ADDR,
   MIN_BAT_ADDR, SLEEP_TIME_ADDR, SLEEP_TIME_ADDR + 1, SLEEP_TIME_ADDR + 2,
   CTRL_0_ADDR}

\* ------------------------------------------------------------------- bounds

\* Register contents before construction.  With the masks below, 0x5A,
\* 0xA5, 0x00 and 0xFF put every combination of (register bit, mask bit)
\* at every bit position.
ByteSamples == {0, 90, 165, 255}

\* The values and masks the register operations are called with.
ArgSamples == {0, 90, 255}

\* The addresses the register operations are called with.
ApiAddrs == {WPUA_ADDR, CTRL_0_ADDR}

\* The identifiers _add_to_pin_mask knows.
ValidPins == {"P10", "G17", "P17", "G31", "P18", "G30"}

\* The identifiers pins arguments are made of: the valid ones, and one
\* that is not.
PinNames == ValidPins \cup {"P11"}

\* The longest collection of identifiers in PinInputs.
MaxPins == 2

\* Every pins argument: an identifier as a string, or a collection of at
\* most MaxPins identifiers.
PinInputs ==
  {[str |-> TRUE, ids |-> <<id>>] : id \in PinNames}
    \cup {[str |-> FALSE, ids |-> ids] :
            ids \in UNION {[1..n -> PinNames] : n \in 0..MaxPins}}

\* The pins arguments the pin operations are called with.
PinArgSamples ==
  {[str |-> TRUE, ids |-> <<"P10">>],
   [str |-> TRUE, ids |-> <<"P11">>],
   [str |-> FALSE, ids |-> <<"P10", "P18">>],
   [str |-> FALSE, ids |-> <<"G30", "P17", "G17">>],
   [str |-> FALSE, ids |-> <<"P17", "P11">>],
   [str |-> FALSE, ids |-> <<"P11", "P18">>]}

\* The status bytes the chip wakes up with: every byte.
StatusBytes == 0..255

\* The voltages set_min_voltage_limit is called with, in millivolts: a
\* negative one, none, and from 0.5 V to 4.2 V.
VoltSamples == {-3000, 0, 500, 1000, 2048, 3000, 3300, 3600, 4200}

\* The durations go_to_sleep is called with, in seconds.
SleepSeconds == {10, 100, 3000, 100000}

\* The passes of go_to_sleep's loop that are followed.
MaxPasses == 2

\* The longest pulse train a capture returns (the code allows PULSES_MAX).
MaxPulses == 5

\* The lengths of the captured trains: none, one short of the five the
\* arithmetic needs, and five or more.
PulseCounts == {0, 4} \cup (5..MaxPulses)

\* Entry 1 of a captured train, and what entry 4 exceeds it by: the
\* nominal 7000, the ends of the accepted range and their neighbours, a
\* factor of 1.2 and a factor of 2.
PulseBase == 1000

PulseDiffs == {5249, 5250, 7000, 8400, 8750, 8751, 14000}

\* A train of n <<level, duration>> pairs whose entry 4 exceeds entry 1 by
\* diff (indices from 0, as in the code).
Train(n, diff) ==
  [i \in 1..n |-> <<i % 2, IF i = 5 THEN PulseBase + diff ELSE PulseBase>>]

\* What the platform can do during a calibrate(): pycom.pulses_get raises,
\* or returns a train, after which UART() gives a port (reinit) or raises.
\* The trains are those of the lengths ns and the differences ds.
Outcomes(ns, ds) ==
  {[raises |-> TRUE, pulses |-> <<>>, reinit |-> TRUE]}
    \cup {[raises |-> FALSE, pulses |-> Train(n, d), reinit |-> TRUE] :
            n \in ns, d \in ds}
    \cup {[raises |-> FALSE, pulses |-> Train(5, EXP_RTC_PERIOD),
           reinit |-> FALSE]}

\* The outcomes of a calibrate() called on its own.
CalOutcomes == Outcomes(PulseCounts, PulseDiffs)

\* The outcomes of the calibrate() of a pass of go_to_sleep: the nominal
\* train, a factor of 1.2, a factor of 2 and a train too short.
PassOutcomes == Outcomes(PulseCounts \ {0}, {7000, 8400, 14000})

\* --------------------------------------------------------- 8-bit arithmetic

\* Python's x & 0xFF, also of a negative x (two's complement).
ToByte(x) == x % 256

\* Python's ~x.
Invert(x) == (0 - x) - 1

RECURSIVE BitAnd(_, _)
\* Python's x & y on non-negative integers.
BitAnd(x, y) ==
  IF x = 0 \/ y = 0 THEN 0
  ELSE ((x % 2) * (y % 2)) + 2 * BitAnd(x \div 2, y \div 2)

RECURSIVE BitOr(_, _)
\* Python's x | y on non-negative integers.
BitOr(x, y) ==
  IF x = 0 THEN y
  ELSE IF y = 0 THEN x
  ELSE (IF (x % 2) + (y % 2) > 0 THEN 1 ELSE 0) + 2 * BitOr(x \div 2, y \div 2)

RECURSIVE BitXor(_, _)
\* Python's x ^ y on non-negative integers.
BitXor(x, y) ==
  IF x = 0 THEN y
  ELSE IF y = 0 THEN x
  ELSE (((x % 2) + (y % 2)) % 2) + 2 * BitXor(x \div 2, y \div 2)

\* Bit i of a non-negative x: (x >> i) & 1.
Bit(x, i) == (x \div (2 ^ i)) % 2

Min(x, y) == IF x < y THEN x ELSE y

\* -------------------------------------------------------------------- state

VARIABLES
  regs,            \* the chip's registers, address -> byte
  rx,              \* the bytes waiting in the UART's receive buffer
  uartUp,          \* TRUE while self.uart is an initialised UART
  clk_cal_factor,  \* self.clk_cal_factor, in units of 1/EXP_RTC_PERIOD
  wire,            \* what the last operation did on the signal line, in order
  last,            \* the last operation: its name, arguments, result, exception
  prev,            \* the call before the last, if a register operation
  pc,              \* "idle", "loop" inside go_to_sleep, "raised", "asleep"
  seconds,         \* go_to_sleep's local variable seconds
  requested,       \* the duration go_to_sleep was called with
  passes           \* the passes of go_to_sleep's loop made so far

vars ==
  <<regs, rx, uartUp, clk_cal_factor, wire, last, prev, pc, seconds,
    requested, passes>>

\* ------------------------------------------------- the line and the chip

\* One event on the signal line: a break, written bytes, a read request
\* (data is <<>> for read() and <<n>> for read(n)), a deinit, a pulse
\* capture (data is <<bound>>) or a re-initialisation.
Event(ev, data) == [ev |-> ev, data |-> data]

\* A driver-side view t of one call in progress: the chip's registers, the
\* UART (rx, up), self.clk_cal_factor (factor), the line events so far
\* (wire), whether an exception is propagating (exc), the value the last
\* call returned (ret, a byte sequence; <<>> for None), how far a
\* calibrate() of this call got (cal) and the self._pulses it assigned
\* (pulses, a sequence of <<level, duration>> pairs; nothing reads
\* self._pulses but the calibrate() that has just assigned it).
Raise(t) == [t EXCEPT !.exc = TRUE]

\* Sequencing: F applied to the value of t, which is computed once.
Then(t, F(_)) == CHOOSE r \in {F(x) : x \in {t}} : TRUE

\* The chip's mutation primitive on one register.
ChipResult(current, and_val, or_val, xor_val) ==
  BitXor(BitOr(BitAnd(current, and_val), or_val), xor_val)

\* The line carries a complete command: break, sync byte, 4-byte frame.
Framed(w) ==
  /\ Len(w) >= 3
  /\ w[Len(w) - 2].ev = "break"
  /\ w[Len(w) - 1] = Event("tx", <<SYNC_BYTE>>)
  /\ w[Len(w)].ev = "tx"
  /\ Len(w[Len(w)].data) = 4

\* The chip's reaction to what has just been written: on a complete command
\* it updates the addressed register and answers with the result, which
\* lands in the receive buffer behind the host's own echoed bytes.
ChipReact(t) ==
  IF Framed(t.wire) /\ t.wire[Len(t.wire)].data[1] \in DOMAIN t.regs
  THEN LET f == t.wire[Len(t.wire)].data
           result == ChipResult(t.regs[f[1]], f[2], f[3], f[4])
       IN [t EXCEPT !.regs[f[1]] = result, !.rx = Append(@, result)]
  ELSE t

\* machine.UART on a de-initialised port either raises or does nothing,
\* as the platform decides: dead is "raise" or "drop".
DeadOutcomes == {"raise", "drop"}

\* uart.sendbreak(n): the single-wire receiver sees the break as a 0 byte.
sendbreak(t, n, dead) ==
  IF t.exc THEN t
  ELSE IF ~t.up THEN (IF dead = "raise" THEN Raise(t) ELSE t)
  ELSE [t EXCEPT !.wire = Append(@, Event("break", <<n>>)),
                 !.rx = Append(@, 0)]

\* uart.write(bytes): the receiver sees its own bytes; the chip may react.
write(t, data, dead) ==
  IF t.exc THEN t
  ELSE IF ~t.up THEN (IF dead = "raise" THEN Raise(t) ELSE t)
  ELSE Then([t EXCEPT !.wire = Append(@, Event("tx", data)),
                      !.rx = @ \o data],
            LAMBDA x : ChipReact(x))

\* uart.read() (expected = <<>>) takes what the buffer holds; uart.read(n)
\* (expected = <<n>>) takes at most n bytes.
read(t, expected, dead) ==
  IF t.exc THEN t
  ELSE IF ~t.up
    THEN (IF dead = "raise" THEN Raise(t) ELSE [t EXCEPT !.ret = <<>>])
  ELSE LET n == IF expected = <<>> THEN Len(t.rx)
                ELSE Min(expected[1], Len(t.rx))
       IN [t EXCEPT !.ret = SubSeq(t.rx, 1, n),
                    !.rx = SubSeq(t.rx, n + 1, Len(t.rx)),
                    !.wire = Append(@, Event("read", expected))]

\* uart.deinit(): the port is released and its buffer is gone.
deinit(t, dead) ==
  IF t.exc THEN t
  ELSE IF ~t.up THEN (IF dead = "raise" THEN Raise(t) ELSE t)
  ELSE [t EXCEPT !.up = FALSE, !.rx = <<>>,
                 !.wire = Append(@, Event("deinit", <<>>))]

\* pycom.pulses_get(pin, bound): raises, or returns at most bound pairs.
pulses_get(t, bound, env) ==
  IF t.exc THEN t
  ELSE IF env.raises THEN Raise(t)
  ELSE [t EXCEPT !.ret = SubSeq(env.pulses, 1, Min(bound, Len(env.pulses))),
                 !.wire = Append(@, Event("capture", <<bound>>))]

\* UART(1, baudrate=10000, pins=(COMM_PIN, )): a fresh port, or an exception.
UART(t, ok) ==
  IF t.exc THEN t
  ELSE IF ~ok THEN Raise(t)
  ELSE [t EXCEPT !.up = TRUE, !.rx = <<>>,
                 !.wire = Append(@, Event("init", <<>>))]

\* The 4-byte command frames among the line events w, in order.
Frames(w) ==
  LET IsFrame(e) == e.ev = "tx" /\ Len(e.data) = 4
      fs == SelectSeq(w, IsFrame)
  IN [i \in 1..Len(fs) |-> fs[i].data]

\* ------------------------------------------------------------ the driver

_send(t, data, dead) == write(t, data, dead)

\* _start sending the break alone, without the sync byte.
_start_without_sync(t, dead) == sendbreak(t, BREAK_LEN, dead)

_start(t, dead) ==
  Then(sendbreak(t, BREAK_LEN, dead), LAMBDA x : _send(x, <<SYNC_BYTE>>, dead))

\* expected is <<>> for None and <<n>> for a given length.
_magic(t, address, and_val, or_val, xor_val, expected, dead) ==
  Then(_start(t, dead), LAMBDA t1 :
  Then(_send(t1, <<address, ToByte(and_val), ToByte(or_val),
                   ToByte(xor_val)>>, dead), LAMBDA t2 :
    IF expected = <<>> THEN read(t2, <<>>, dead)
    ELSE IF expected[1] > 0 THEN read(t2, expected, dead)
    ELSE IF t2.exc THEN t2 ELSE [t2 EXCEPT !.ret = <<>>]))

\* poke returns None.
poke(t, address, value, dead) ==
  Then(_magic(t, address, 0, value, 0, <<>>, dead),
       LAMBDA t1 : IF t1.exc THEN t1 ELSE [t1 EXCEPT !.ret = <<>>])

\* peek taking the byte before the result: the frame's xor byte.
peek_index_5(t, address, dead) ==
  Then(_magic(t, address, 255, 0, 0, <<>>, dead), LAMBDA t1 :
    IF t1.exc THEN t1
    ELSE IF Len(t1.ret) < 6 THEN Raise(t1)
    ELSE [t1 EXCEPT !.ret = <<t1.ret[6]>>])

\* peek returns the byte at index 6 of what was read; a shorter reply (or
\* None) raises.
peek(t, address, dead) ==
  Then(_magic(t, address, 255, 0, 0, <<>>, dead), LAMBDA t1 :
    IF t1.exc THEN t1
    ELSE IF Len(t1.ret) < 7 THEN Raise(t1)
    ELSE [t1 EXCEPT !.ret = <<t1.ret[7]>>])

setbits(t, address, mask, dead) ==
  Then(_magic(t, address, 255, mask, 0, <<>>, dead),
       LAMBDA t1 : IF t1.exc THEN t1 ELSE [t1 EXCEPT !.ret = <<>>])

\* clearbits sending the mask itself as the AND value.
clearbits_not_inverted(t, address, mask, dead) ==
  Then(_magic(t, address, mask, 0, 0, <<>>, dead),
       LAMBDA t1 : IF t1.exc THEN t1 ELSE [t1 EXCEPT !.ret = <<>>])

clearbits(t, address, mask, dead) ==
  Then(_magic(t, address, Invert(mask), 0, 0, <<>>, dead),
       LAMBDA t1 : IF t1.exc THEN t1 ELSE [t1 EXCEPT !.ret = <<>>])

\* togglebits sending the mask as the OR value.
togglebits_as_or(t, address, mask, dead) ==
  Then(_magic(t, address, 255, mask, 0, <<>>, dead),
       LAMBDA t1 : IF t1.exc THEN t1 ELSE [t1 EXCEPT !.ret = <<>>])

togglebits(t, address, mask, dead) ==
  Then(_magic(t, address, 255, 0, mask, <<>>, dead),
       LAMBDA t1 : IF t1.exc THEN t1 ELSE [t1 EXCEPT !.ret = <<>>])

\* The result of a mask computation: the mask, or an exception (ValueError).
MaskResult(mask, exc) == [mask |-> mask, exc |-> exc]

\* _add_to_pin_mask taking an unknown identifier as no bit at all.
_add_to_pin_mask_lenient(mask, pin) ==
  IF pin = "P10" \/ pin = "G17" THEN MaskResult(BitOr(mask, 1), FALSE)
  ELSE IF pin = "P17" \/ pin = "G31" THEN MaskResult(BitOr(mask, 2), FALSE)
  ELSE IF pin = "P18" \/ pin = "G30" THEN MaskResult(BitOr(mask, 8), FALSE)
  ELSE MaskResult(mask, FALSE)

\* _add_to_pin_mask assigning the bit of P18/G30 where the code ORs it in.
_add_to_pin_mask_overwrites(mask, pin) ==
  IF pin = "P10" \/ pin = "G17" THEN MaskResult(BitOr(mask, 1), FALSE)
  ELSE IF pin = "P17" \/ pin = "G31" THEN MaskResult(BitOr(mask, 2), FALSE)
  ELSE IF pin = "P18" \/ pin = "G30" THEN MaskResult(8, FALSE)
  ELSE MaskResult(mask, TRUE)

_add_to_pin_mask(mask, pin) ==
  IF pin = "P10" \/ pin = "G17" THEN MaskResult(BitOr(mask, 1), FALSE)
  ELSE IF pin = "P17" \/ pin = "G31" THEN MaskResult(BitOr(mask, 2), FALSE)
  ELSE IF pin = "P18" \/ pin = "G30" THEN MaskResult(BitOr(mask, 8), FALSE)
  ELSE MaskResult(mask, TRUE)

RECURSIVE AddPins(_, _, _)
\* The loop "for pin in pins" from element i on: it ends at the first
\* identifier that raises.
AddPins(mask, ids, i) ==
  IF i > Len(ids) THEN MaskResult(mask, FALSE)
  ELSE Then(_add_to_pin_mask(mask, ids[i]),
            LAMBDA r : IF r.exc THEN r ELSE AddPins(r.mask, ids, i + 1))

_create_pin_mask(pins) ==
  Then(IF pins.str THEN _add_to_pin_mask(0, pins.ids[1])
       ELSE AddPins(0, pins.ids, 1),
       LAMBDA r : IF r.exc THEN r
                  ELSE MaskResult(BitAnd(r.mask, PIN_MASK), FALSE))

\* A pin operation: the mask first, then setbits or clearbits with it.
enable_pullups(t, pins, dead) ==
  Then(_create_pin_mask(pins), LAMBDA m :
    IF m.exc THEN Raise(t) ELSE setbits(t, WPUA_ADDR, m.mask, dead))

disable_pullups(t, pins, dead) ==
  Then(_create_pin_mask(pins), LAMBDA m :
    IF m.exc THEN Raise(t) ELSE clearbits(t, WPUA_ADDR, m.mask, dead))

enable_wake_on_raise(t, pins, dead) ==
  Then(_create_pin_mask(pins), LAMBDA m :
    IF m.exc THEN Raise(t) ELSE setbits(t, IOCAP_ADDR, m.mask, dead))

disable_wake_on_raise(t, pins, dead) ==
  Then(_create_pin_mask(pins), LAMBDA m :
    IF m.exc THEN Raise(t) ELSE clearbits(t, IOCAP_ADDR, m.mask, dead))

\* enable_wake_on_fall writing to the register of the rising edge.
enable_wake_on_fall_on_iocap(t, pins, dead) ==
  Then(_create_pin_mask(pins), LAMBDA m :
    IF m.exc THEN Raise(t) ELSE setbits(t, IOCAP_ADDR, m.mask, dead))

enable_wake_on_fall(t, pins, dead) ==
  Then(_create_pin_mask(pins), LAMBDA m :
    IF m.exc THEN Raise(t) ELSE setbits(t, IOCAN_ADDR, m.mask, dead))

disable_wake_on_fall(t, pins, dead) ==
  Then(_create_pin_mask(pins), LAMBDA m :
    IF m.exc THEN Raise(t) ELSE clearbits(t, IOCAN_ADDR, m.mask, dead))

\* The stage a calibrate() has reached.
At(t, stage) == IF t.exc THEN t ELSE [t EXCEPT !.cal = stage]

\* The measurement reading entry 3 where the code reads entry 4.
MeasureFactor_entry_3(t) ==
  IF t.exc THEN t
  ELSE IF Len(t.pulses) < 5 THEN t
  ELSE [t EXCEPT !.factor = t.pulses[4][2] - t.pulses[2][2]]

\* The measurement without its try/except: a short capture raises.
MeasureFactor_no_try(t) ==
  IF t.exc THEN t
  ELSE IF Len(t.pulses) < 5 THEN Raise(t)
  ELSE [t EXCEPT !.factor = t.pulses[5][2] - t.pulses[2][2]]

\* (self._pulses[4][1] - self._pulses[1][1]) / EXP_RTC_PERIOD inside
\* try/except: with fewer than 5 entries the index raises and the factor
\* stays.  The quotient is held as its numerator.
MeasureFactor(t) ==
  IF t.exc THEN t
  ELSE IF Len(t.pulses) < 5 THEN t
  ELSE [t EXCEPT !.factor = t.pulses[5][2] - t.pulses[2][2]]

\* The clamp without its lower bound.
ClampFactor_upper_only(f) ==
  IF 4 * f > 5 * EXP_RTC_PERIOD THEN EXP_RTC_PERIOD ELSE f

\* if self.clk_cal_factor > 1.25 or self.clk_cal_factor < 0.75: factor = 1
ClampFactor(f) ==
  IF 4 * f > 5 * EXP_RTC_PERIOD \/ 4 * f < 3 * EXP_RTC_PERIOD
  THEN EXP_RTC_PERIOD
  ELSE f

\* calibrate() setting the trigger bit with setbits, which reads the echo.
calibrate_with_setbits(t, env, dead) ==
  Then(At(t, "trigger"), LAMBDA t0 :
  Then(setbits(t0, CTRL_0_ADDR, 4, dead), LAMBDA t1 :
  Then(At(t1, "deinit"), LAMBDA t1a :
  Then(deinit(t1a, dead), LAMBDA t2 :
  Then(At(t2, "capture"), LAMBDA t2a :
  Then(pulses_get(t2a, PULSES_MAX, env), LAMBDA t3 :
  Then(IF t3.exc THEN t3 ELSE [t3 EXCEPT !.pulses = t3.ret, !.ret = <<>>],
       LAMBDA t3a :
  Then(At(t3a, "reinit"), LAMBDA t4 :
  Then(UART(t4, env.reinit), LAMBDA t4a :
  Then(At(t4a, "factor"), LAMBDA t5 :
  Then(MeasureFactor(t5), LAMBDA t5a :
  Then(At(t5a, "done"), LAMBDA t6 :
    IF t6.exc THEN t6
    ELSE [t6 EXCEPT !.factor = ClampFactor(t6.factor)]))))))))))))

\* calibrate(): the trigger with an echo length of 0, deinit, the capture,
\* a new UART, the measurement and the range check; cal is the statement an
\* exception came from, or "done".
calibrate(t, env, dead) ==
  Then(At(t, "trigger"), LAMBDA t0 :
  Then(_magic(t0, CTRL_0_ADDR, 255, 4, 0, <<0>>, dead), LAMBDA t1 :
  Then(At(t1, "deinit"), LAMBDA t1a :
  Then(deinit(t1a, dead), LAMBDA t2 :
  Then(At(t2, "capture"), LAMBDA t2a :
  Then(pulses_get(t2a, PULSES_MAX, env), LAMBDA t3 :
  Then(IF t3.exc THEN t3 ELSE [t3 EXCEPT !.pulses = t3.ret, !.ret = <<>>],
       LAMBDA t3a :
  Then(At(t3a, "reinit"), LAMBDA t4 :
  Then(UART(t4, env.reinit), LAMBDA t4a :
  Then(At(t4a, "factor"), LAMBDA t5 :
  Then(MeasureFactor(t5), LAMBDA t5a :
  Then(At(t5a, "done"), LAMBDA t6 :
    IF t6.exc THEN t6
    ELSE [t6 EXCEPT !.factor = ClampFactor(t6.factor)]))))))))))))

enable_auto_poweroff(t, dead) == setbits(t, CTRL_0_ADDR, 2, dead)

RECURSIVE QuotRem(_, _, _)
\* <<quotient, remainder>> of x * y divided by d, for x >= 0, found bit by
\* bit of x: the product itself is not formed (it passes 2^31 for the
\* longer durations).
QuotRem(x, y, d) ==
  IF x = 0 THEN <<0, 0>>
  ELSE Then(QuotRem(x \div 2, y, d), LAMBDA h :
       Then((2 * h[2]) + ((x % 2) * y), LAMBDA r :
         <<(2 * h[1]) + (r \div d), r % d>>))

\* int((seconds / (1.024 * self.clk_cal_factor)) + 0.5), for seconds >= 0
\* and the factor f / EXP_RTC_PERIOD: the quotient is
\* seconds * 109375 / (16 * f), and int() drops the fraction of the quotient
\* plus a half.  (Exact arithmetic; the floats of the code differ from it
\* only where the quotient is within rounding error of a half, which the
\* passes followed from the durations of SleepSeconds do not reach.)
Ticks(secs, f) ==
  Then(QuotRem(secs, 109375, 16 * f), LAMBDA qr :
    qr[1] + ((qr[2] + (8 * f)) \div (16 * f)))

\* One pass of go_to_sleep putting the sleep-arm command before the three
\* sleep-time bytes.
gts_pass_arms_first(t, secs, env, dead) ==
  Then(calibrate(t, env, dead), LAMBDA c :
  Then([c EXCEPT !.exc = FALSE], LAMBDA t1 :
  Then(Ticks(secs, t1.factor), LAMBDA ticks :
  Then(setbits(t1, CTRL_0_ADDR, 1, dead), LAMBDA t2 :
  Then(poke(t2, SLEEP_TIME_ADDR, BitAnd(ticks \div 65536, 255), dead),
       LAMBDA t3 :
  Then(poke(t3, SLEEP_TIME_ADDR + 1, BitAnd(ticks \div 256, 255), dead),
       LAMBDA t4 :
    poke(t4, SLEEP_TIME_ADDR + 2, BitAnd(ticks, 255), dead)))))))

\* One pass of go_to_sleep's loop: calibrate with every exception caught,
\* seconds replaced by the ticks, three pokes and the sleep-arm bit.
gts_pass(t, secs, env, dead) ==
  Then(calibrate(t, env, dead), LAMBDA c :
  Then([c EXCEPT !.exc = FALSE], LAMBDA t1 :
  Then(Ticks(secs, t1.factor), LAMBDA ticks :
  Then(poke(t1, SLEEP_TIME_ADDR, BitAnd(ticks \div 65536, 255), dead),
       LAMBDA t2 :
  Then(poke(t2, SLEEP_TIME_ADDR + 1, BitAnd(ticks \div 256, 255), dead),
       LAMBDA t3 :
  Then(poke(t3, SLEEP_TIME_ADDR + 2, BitAnd(ticks, 255), dead),
       LAMBDA t4 :
    setbits(t4, CTRL_0_ADDR, 1, dead)))))))

hw_reset(t, dead) == setbits(t, CTRL_0_ADDR, 16, dead)

\* Python's int(n / d) for integers n and d # 0: the quotient with its
\* fraction dropped, towards zero.
IntQuotient(n, d) ==
  LET an == IF n < 0 THEN 0 - n ELSE n
      ad == IF d < 0 THEN 0 - d ELSE d
  IN IF (n < 0) = (d < 0) THEN an \div ad ELSE 0 - (an \div ad)

\* set_min_voltage_limit dropping the fraction of 524.288 / value, without
\* the half that rounds it.
set_min_voltage_limit_truncates(t, mv, dead) ==
  IF t.exc THEN t
  ELSE IF mv = 0 THEN Raise(t)
  ELSE poke(t, MIN_BAT_ADDR, IntQuotient(524288, mv), dead)

\* int(((256 * 2.048) + (value / 2)) / value), then the poke.  The voltage
\* is held in millivolts, value = mv / 1000, so that the quotient is
\* (524288 + mv / 2) / mv = (1048576 + mv) / (2 * mv); dividing by a value
\* of 0 raises ZeroDivisionError.
set_min_voltage_limit(t, mv, dead) ==
  IF t.exc THEN t
  ELSE IF mv = 0 THEN Raise(t)
  ELSE poke(t, MIN_BAT_ADDR, IntQuotient(1048576 + mv, 2 * mv), dead)

\* get_wake_status reading the level of P18 from bit 2.
get_wake_status_bit_2(t, dead) ==
  Then(peek(t, WAKE_STATUS_ADDR, dead), LAMBDA t1 :
    IF t1.exc THEN t1
    ELSE [t1 EXCEPT !.ret =
            <<BitAnd(t1.ret[1], BitOr(TIMER_WAKE, POWER_ON_WAKE)),
              BitAnd(t1.ret[1], 1),
              BitAnd(t1.ret[1], 2) \div 2,
              BitAnd(t1.ret[1], 4) \div 4>>])

\* The dictionary get_wake_status returns, as <<wake, P10, P17, P18>>.
get_wake_status(t, dead) ==
  Then(peek(t, WAKE_STATUS_ADDR, dead), LAMBDA t1 :
    IF t1.exc THEN t1
    ELSE [t1 EXCEPT !.ret =
            <<BitAnd(t1.ret[1], BitOr(TIMER_WAKE, POWER_ON_WAKE)),
              BitAnd(t1.ret[1], 1),
              BitAnd(t1.ret[1], 2) \div 2,
              BitAnd(t1.ret[1], 8) \div 8>>])

\* ------------------------------------------------------------- the actions

\* The outcomes the platform can choose between for the call about to start:
\* the choice shows only while the UART is de-initialised.
DeadChoice == IF uartUp THEN {"raise"} ELSE DeadOutcomes

\* The call about to start, on the current state.
Cur ==
  [regs |-> regs, rx |-> rx, up |-> uartUp, factor |-> clk_cal_factor,
   pulses |-> <<>>, wire |-> <<>>, exc |-> FALSE, ret |-> <<>>,
   cal |-> "none"]

\* A pins argument: one identifier given as a string (str is TRUE and ids
\* holds it alone) or a collection of identifiers, in iteration order.
PinStr(id) == [str |-> TRUE, ids |-> <<id>>]

PinList(ids) == [str |-> FALSE, ids |-> ids]

NoPins == PinList(<<>>)

\* The record of an operation: addr and arg are 0 and pins is NoPins where
\* the operation has no such argument; old is what the register at addr
\* held before the operation (in r, the registers before it); cal and
\* pulses are those of the call's calibrate(), if any.
Op(name, addr, arg, pins, r, t) ==
  [op |-> name, addr |-> addr, arg |-> arg, pins |-> pins,
   old |-> IF addr \in DOMAIN r THEN r[addr] ELSE 0,
   ret |-> t.ret, exc |-> t.exc, cal |-> t.cal, pulses |-> t.pulses]

\* The register operations.
RegOps == {"poke", "peek", "setbits", "clearbits", "togglebits"}

NoCall == [op |-> "none", addr |-> 0, arg |-> 0]

\* What is kept of a register operation once another call has followed it.
Call(o) ==
  IF o.op \in RegOps THEN [op |-> o.op, addr |-> o.addr, arg |-> o.arg]
  ELSE NoCall

\* The effect of a finished call on the chip, the UART and the records.
Commit(t, name, addr, arg, pins) ==
  \E x \in {t} :
    /\ regs' = x.regs
    /\ rx' = x.rx
    /\ uartUp' = x.up
    /\ clk_cal_factor' = x.factor
    /\ wire' = x.wire
    /\ last' = Op(name, addr, arg, pins, regs, x)
    /\ prev' = Call(last)

\* __init__: open the UART, factor 1, drain the buffer, clear bit 7 of the
\* option register.  The registers hold r0 before.
Init ==
  \E r0 \in ByteSamples :
    \E t0 \in {[regs |-> [a \in Addrs |-> r0], rx |-> <<>>, up |-> TRUE,
                 factor |-> EXP_RTC_PERIOD, pulses |-> <<>>, wire |-> <<>>,
                 exc |-> FALSE, ret |-> <<>>, cal |-> "none"]} :
    \E t1 \in {Then(read(t0, <<>>, "raise"), LAMBDA x :
                  clearbits(x, OPTION_REG_ADDR, 128, "raise"))} :
       /\ regs = t1.regs
       /\ rx = t1.rx
       /\ uartUp = t1.up
       /\ wire = t1.wire
       /\ last = Op("__init__", 0, 0, NoPins, t0.regs, t1)
       /\ prev = NoCall
       /\ clk_cal_factor = t1.factor
       /\ pc = "idle"
       /\ seconds = 0
       /\ requested = 0
       /\ passes = 0

Poke(a, v) ==
  /\ pc = "idle"
  /\ \E dead \in DeadChoice : Commit(poke(Cur, a, v, dead), "poke", a, v, NoPins)
  /\ UNCHANGED <<pc, seconds, requested, passes>>

Peek(a) ==
  /\ pc = "idle"
  /\ \E dead \in DeadChoice : Commit(peek(Cur, a, dead), "peek", a, 0, NoPins)
  /\ UNCHANGED <<pc, seconds, requested, passes>>

SetBits(a, m) ==
  /\ pc = "idle"
  /\ \E dead \in DeadChoice :
       Commit(setbits(Cur, a, m, dead), "setbits", a, m, NoPins)
  /\ UNCHANGED <<pc, seconds, requested, passes>>

ClearBits(a, m) ==
  /\ pc = "idle"
  /\ \E dead \in DeadChoice :
       Commit(clearbits(Cur, a, m, dead), "clearbits", a, m, NoPins)
  /\ UNCHANGED <<pc, seconds, requested, passes>>

ToggleBits(a, m) ==
  /\ pc = "idle"
  /\ \E dead \in DeadChoice :
       Commit(togglebits(Cur, a, m, dead), "togglebits", a, m, NoPins)
  /\ UNCHANGED <<pc, seconds, requested, passes>>

\* The register operations, called in any order.
NextReg ==
  \/ \E a \in ApiAddrs, v \in ArgSamples : Poke(a, v)
  \/ \E a \in ApiAddrs : Peek(a)
  \/ \E a \in ApiAddrs, m \in ArgSamples : SetBits(a, m)
  \/ \E a \in ApiAddrs, m \in ArgSamples : ClearBits(a, m)
  \/ \E a \in ApiAddrs, m \in ArgSamples : ToggleBits(a, m)

SpecReg == Init /\ [][NextReg]_vars

\* The mask a pin operation computed from pins (0 when that raised).
MaskArg(pins) ==
  LET m == _create_pin_mask(pins) IN IF m.exc THEN 0 ELSE m.mask

EnablePullups(pins) ==
  /\ pc = "idle"
  /\ \E dead \in DeadChoice :
       Commit(enable_pullups(Cur, pins, dead), "enable_pullups", WPUA_ADDR,
              MaskArg(pins), pins)
  /\ UNCHANGED <<pc, seconds, requested, passes>>

DisablePullups(pins) ==
  /\ pc = "idle"
  /\ \E dead \in DeadChoice :
       Commit(disable_pullups(Cur, pins, dead), "disable_pullups", WPUA_ADDR,
              MaskArg(pins), pins)
  /\ UNCHANGED <<pc, seconds, requested, passes>>

EnableWakeOnRaise(pins) ==
  /\ pc = "idle"
  /\ \E dead \in DeadChoice :
       Commit(enable_wake_on_raise(Cur, pins, dead), "enable_wake_on_raise",
              IOCAP_ADDR, MaskArg(pins), pins)
  /\ UNCHANGED <<pc, seconds, requested, passes>>

DisableWakeOnRaise(pins) ==
  /\ pc = "idle"
  /\ \E dead \in DeadChoice :
       Commit(disable_wake_on_raise(Cur, pins, dead), "disable_wake_on_raise",
              IOCAP_ADDR, MaskArg(pins), pins)
  /\ UNCHANGED <<pc, seconds, requested, passes>>

EnableWakeOnFall(pins) ==
  /\ pc = "idle"
  /\ \E dead \in DeadChoice :
       Commit(enable_wake_on_fall(Cur, pins, dead), "enable_wake_on_fall",
              IOCAN_ADDR, MaskArg(pins), pins)
  /\ UNCHANGED <<pc, seconds, requested, passes>>

DisableWakeOnFall(pins) ==
  /\ pc = "idle"
  /\ \E dead \in DeadChoice :
       Commit(disable_wake_on_fall(Cur, pins, dead), "disable_wake_on_fall",
              IOCAN_ADDR, MaskArg(pins), pins)
  /\ UNCHANGED <<pc, seconds, requested, passes>>

\* The pin operations, called in any order.
NextPin ==
  \/ \E pins \in PinArgSamples : EnablePullups(pins)
  \/ \E pins \in PinArgSamples : DisablePullups(pins)
  \/ \E pins \in PinArgSamples : EnableWakeOnRaise(pins)
  \/ \E pins \in PinArgSamples : DisableWakeOnRaise(pins)
  \/ \E pins \in PinArgSamples : EnableWakeOnFall(pins)
  \/ \E pins \in PinArgSamples : DisableWakeOnFall(pins)

SpecPin == Init /\ [][NextPin]_vars

\* One evaluation of _create_pin_mask: nothing but the record changes.
CreatePinMask(pins) ==
  /\ pc = "idle"
  /\ LET m == _create_pin_mask(pins)
     IN last' = [op |-> "_create_pin_mask", addr |-> 0, arg |-> 0,
                 pins |-> pins, old |-> 0,
                 ret |-> IF m.exc THEN <<>> ELSE <<m.mask>>, exc |-> m.exc,
                 cal |-> "none", pulses |-> <<>>]
  /\ UNCHANGED <<regs, rx, uartUp, clk_cal_factor, wire, prev, pc, seconds,
                 requested, passes>>

\* The identifiers a pins argument holds, as a set.
IdSet(pins) == {pins.ids[i] : i \in 1..Len(pins.ids)}

\* _create_pin_mask on the first pins argument after construction.
CreatePinMaskFirst(pins) ==
  /\ last.op = "__init__"
  /\ CreatePinMask(pins)

\* _create_pin_mask once more, on a pins argument holding the same
\* identifiers as the one before: the same in another order, with
\* repetitions, without them, or as a string.  The evaluation before is
\* kept.
CreatePinMaskAgain(pins) ==
  /\ pc = "idle"
  /\ last.op = "_create_pin_mask"
  /\ prev = NoCall
  /\ IdSet(pins) = IdSet(last.pins)
  /\ LET m == _create_pin_mask(pins)
     IN last' = [op |-> "_create_pin_mask", addr |-> 0, arg |-> 0,
                 pins |-> pins, old |-> 0,
                 ret |-> IF m.exc THEN <<>> ELSE <<m.mask>>, exc |-> m.exc,
                 cal |-> "none", pulses |-> <<>>]
  /\ prev' = [op |-> last.op, addr |-> 0, arg |-> 0, pins |-> last.pins,
              ret |-> last.ret, exc |-> last.exc]
  /\ UNCHANGED <<regs, rx, uartUp, clk_cal_factor, wire, pc, seconds,
                 requested, passes>>

\* _create_pin_mask on a pins argument, then on a rearrangement of it.
NextRearranged ==
  \/ \E pins \in PinInputs : CreatePinMaskFirst(pins)
  \/ \E pins \in PinInputs : CreatePinMaskAgain(pins)

SpecRearranged == Init /\ [][NextRearranged]_vars

\* _create_pin_mask on every pins argument within the bounds.
NextMask == \E pins \in PinInputs : CreatePinMask(pins)

SpecMask == Init /\ [][NextMask]_vars

Calibrate ==
  /\ pc = "idle"
  /\ \E env \in CalOutcomes, dead \in DeadChoice :
       Commit(calibrate(Cur, env, dead), "calibrate", 0, 0, NoPins)
  /\ UNCHANGED <<pc, seconds, requested, passes>>

\* go_to_sleep(s) up to its loop: gc.collect(), with seconds bound to s.
GoToSleep(s) ==
  /\ pc = "idle"
  /\ pc' = "loop"
  /\ seconds' = s
  /\ requested' = s
  /\ passes' = 0
  /\ UNCHANGED <<regs, rx, uartUp, clk_cal_factor, wire, last, prev>>

\* One pass of the loop that returns to the caller once it has armed the
\* sleep.
GtsPass_returns ==
  /\ pc = "loop"
  /\ passes < MaxPasses
  /\ \E env \in PassOutcomes, dead \in DeadOutcomes :
       \E t \in {gts_pass(Cur, seconds, env, dead)} :
          /\ Commit(t, "go_to_sleep", 0, seconds, NoPins)
          /\ seconds' = Ticks(seconds, t.factor)
          /\ pc' = IF t.exc THEN "raised" ELSE "idle"
  /\ passes' = passes + 1
  /\ UNCHANGED requested

\* One pass of the loop.  An exception of a poke or of setbits leaves
\* go_to_sleep (pc is "raised": the caller has the exception, and the
\* driver is followed no further); otherwise the loop goes on.
GtsPass ==
  /\ pc = "loop"
  /\ passes < MaxPasses
  /\ \E env \in PassOutcomes, dead \in DeadOutcomes :
       \E t \in {gts_pass(Cur, seconds, env, dead)} :
          /\ Commit(t, "go_to_sleep", 0, seconds, NoPins)
          /\ seconds' = Ticks(seconds, t.factor)
          /\ pc' = IF t.exc THEN "raised" ELSE "loop"
  /\ passes' = passes + 1
  /\ UNCHANGED requested

\* The chip cuts the power once the sleep-arm bit has reached it.
PowerOff ==
  /\ pc = "loop"
  /\ passes > 0
  /\ Frames(wire) # <<>>
  /\ Frames(wire)[Len(Frames(wire))] = <<CTRL_0_ADDR, 255, 1, 0>>
  /\ pc' = "asleep"
  /\ UNCHANGED <<regs, rx, uartUp, clk_cal_factor, wire, last, prev, seconds,
                 requested, passes>>

\* calibrate(), called any number of times.
NextCal == Calibrate

SpecCal == Init /\ [][NextCal]_vars

\* go_to_sleep, followed through its loop.
NextSleep ==
  \/ \E s \in SleepSeconds : GoToSleep(s)
  \/ GtsPass
  \/ PowerOff

SpecSleep == Init /\ [][NextSleep]_vars

\* The chip comes out of sleep with the status byte s in its wake-status
\* register.
WakeUp(s) ==
  /\ pc = "idle"
  /\ regs' = [regs EXCEPT ![WAKE_STATUS_ADDR] = s]
  /\ wire' = <<>>
  /\ last' = Op("wake_up", 0, s, NoPins, regs, Cur)
  /\ prev' = Call(last)
  /\ UNCHANGED <<rx, uartUp, clk_cal_factor, pc, seconds, requested, passes>>

GetWakeStatus ==
  /\ pc = "idle"
  /\ \E dead \in DeadChoice :
       Commit(get_wake_status(Cur, dead), "get_wake_status", WAKE_STATUS_ADDR,
              0, NoPins)
  /\ UNCHANGED <<pc, seconds, requested, passes>>

\* get_wake_status after every wake-up status.
NextWake ==
  \/ \E s \in StatusBytes : WakeUp(s)
  \/ GetWakeStatus

SpecWake == Init /\ [][NextWake]_vars

SetMinVoltageLimit(mv) ==
  /\ pc = "idle"
  /\ \E dead \in DeadChoice :
       Commit(set_min_voltage_limit(Cur, mv, dead), "set_min_voltage_limit",
              MIN_BAT_ADDR, mv, NoPins)
  /\ UNCHANGED <<pc, seconds, requested, passes>>

\* set_min_voltage_limit, called any number of times.
NextVolt == \E mv \in VoltSamples : SetMinVoltageLimit(mv)

SpecVolt == Init /\ [][NextVolt]_vars

EnableAutoPoweroff ==
  /\ pc = "idle"
  /\ \E dead \in DeadChoice :
       Commit(enable_auto_poweroff(Cur, dead), "enable_auto_poweroff",
              CTRL_0_ADDR, 2, NoPins)
  /\ UNCHANGED <<pc, seconds, requested, passes>>

HwReset ==
  /\ pc = "idle"
  /\ \E dead \in DeadChoice :
       Commit(hw_reset(Cur, dead), "hw_reset", CTRL_0_ADDR, 16, NoPins)
  /\ UNCHANGED <<pc, seconds, requested, passes>>

\* The driver is fresh from construction or from a calibrate().  What an
\* operation does on the line depends on the calls before it only through
\* the UART being initialised or not (the receive buffer is empty between
\* calls), and only calibrate() changes that.
Settled == last.op \in {"__init__", "calibrate"}

\* Every operation of the driver: calibrate() any number of times, and on
\* each state that leaves, every other operation once.
NextAll ==
  \/ Settled /\ Calibrate
  \/ Settled /\ NextReg
  \/ Settled /\ NextPin
  \/ Settled /\ GetWakeStatus
  \/ Settled /\ NextVolt
  \/ Settled /\ EnableAutoPoweroff
  \/ Settled /\ HwReset
  \/ Settled /\ \E s \in SleepSeconds : GoToSleep(s)
  \/ GtsPass
  \/ PowerOff

SpecAll == Init /\ [][NextAll]_vars

\* ---------------------------------------------------------------- claims

\* C1: against the chip's AND/OR/XOR primitive and its 7-byte reply, a
\* peek(a) that follows poke(a, v) returns v, and a peek changes no register.
C1_PokePeekRoundTrip ==
  [][last'.op = "peek" =>
       /\ regs' = regs
       /\ (last.op = "poke" /\ last.addr = last'.addr)
            => (~last'.exc /\ last'.ret = <<last.arg>>)]_vars

\* A peek returned 0x5A right after poke wrote 0x5A over another content.
C1_Witness ==
  /\ last.op = "peek" /\ ~last.exc /\ last.ret = <<90>>
  /\ prev.op = "poke" /\ prev.addr = last.addr /\ prev.arg = 90
  /\ regs[OPTION_REG_ADDR] = 37

\* C9: setbits(a, m) sends {a, 0xFF, m, 0} and leaves r OR m; clearbits(a, m)
\* sends {a, (NOT m) AND 0xFF, 0, 0} and leaves r AND NOT m; a peek(a) that
\* follows returns a value with the bits of m set (clear) and the bits
\* outside m as in r.
C9_SetClearBits ==
  [][/\ last'.op = "setbits" =>
          /\ Frames(wire') = <<(<<last'.addr, 255, last'.arg, 0>>)>>
          /\ \A i \in 0..7 :
               Bit(regs'[last'.addr], i) =
                 (IF Bit(last'.arg, i) = 1 THEN 1 ELSE Bit(regs[last'.addr], i))
     /\ last'.op = "clearbits" =>
          /\ Frames(wire') = <<(<<last'.addr, 255 - last'.arg, 0, 0>>)>>
          /\ \A i \in 0..7 :
               Bit(regs'[last'.addr], i) =
                 (IF Bit(last'.arg, i) = 1 THEN 0 ELSE Bit(regs[last'.addr], i))
     /\ (last'.op = "peek" /\ last.op = "setbits" /\ last.addr = last'.addr) =>
          /\ ~last'.exc
          /\ \A i \in 0..7 :
               Bit(last'.ret[1], i) =
                 (IF Bit(last.arg, i) = 1 THEN 1 ELSE Bit(last.old, i))
     /\ (last'.op = "peek" /\ last.op = "clearbits" /\ last.addr = last'.addr) =>
          /\ ~last'.exc
          /\ \A i \in 0..7 :
               Bit(last'.ret[1], i) =
                 (IF Bit(last.arg, i) = 1 THEN 0 ELSE Bit(last.old, i))]_vars

\* clearbits(a, 0x5A) has taken 0xFF to 0xA5, right after setbits(a, 0x5A).
C9_Witness ==
  /\ last.op = "clearbits" /\ last.arg = 90 /\ last.old = 255
  /\ regs[last.addr] = 165
  /\ prev.op = "setbits" /\ prev.addr = last.addr /\ prev.arg = 90

\* C10: togglebits(a, m) leaves r XOR m: the bits of m flipped, every other
\* bit and register as before; a second togglebits(a, m) restores r.
C10_ToggleBits ==
  [][last'.op = "togglebits" =>
       /\ \A i \in 0..7 :
            Bit(regs'[last'.addr], i) =
              (Bit(regs[last'.addr], i) + Bit(last'.arg, i)) % 2
       /\ \A b \in Addrs \ {last'.addr} : regs'[b] = regs[b]
       /\ (last.op = "togglebits" /\ last.addr = last'.addr
             /\ last.arg = last'.arg)
            => regs'[last'.addr] = last.old]_vars

\* The second of two togglebits(a, 0x5A) has taken the register back to 0xA5.
C10_Witness ==
  /\ last.op = "togglebits" /\ last.arg = 90 /\ last.old = 255
  /\ regs[last.addr] = 165
  /\ prev.op = "togglebits" /\ prev.addr = last.addr /\ prev.arg = 90

\* The bit the specification gives a valid identifier.
PinBit(id) ==
  IF id \in {"P10", "G17"} THEN 1
  ELSE IF id \in {"P17", "G31"} THEN 2
  ELSE 8

RECURSIVE SumOf(_)
SumOf(S) == IF S = {} THEN 0 ELSE LET x == CHOOSE y \in S : TRUE
                                  IN x + SumOf(S \ {x})

\* The OR of the bits of the identifiers ids: the sum of its distinct bits.
OrOfPinBits(ids) == SumOf({PinBit(ids[i]) : i \in 1..Len(ids)})

AllValid(pins) == \A i \in 1..Len(pins.ids) : pins.ids[i] \in ValidPins

PinOps ==
  {"enable_pullups", "disable_pullups", "enable_wake_on_raise",
   "disable_wake_on_raise", "enable_wake_on_fall", "disable_wake_on_fall"}

\* C2: for a non-empty collection of valid identifiers, or one valid
\* identifier given as a string, _create_pin_mask returns the OR of the
\* pins' bits: bit 0 for P10/G17, bit 1 for P17/G31, bit 3 for P18/G30.
C2_MaskIsOrOfPinBits ==
  (last.op = "_create_pin_mask" /\ AllValid(last.pins) /\ last.pins.ids # <<>>)
    => (~last.exc /\ last.ret = <<OrOfPinBits(last.pins.ids)>>)

\* C3: a pin operation called with an identifier outside the valid set fails
\* with the invalid-pin error, puts nothing on the line and changes no
\* register.
C3_InvalidPinSendsNothing ==
  [][(last'.op \in PinOps /\ ~AllValid(last'.pins)) =>
       (last'.exc /\ wire' = <<>> /\ regs' = regs)]_vars

\* enable_pullups(['P17', 'P11']) has raised, with the line untouched.
C3_Witness ==
  /\ last.op = "enable_pullups" /\ last.pins = PinList(<<"P17", "P11">>)
  /\ last.exc /\ wire = <<>>

\* The 24-bit value the three sleep-time registers hold.
SleepTime ==
  (regs[SLEEP_TIME_ADDR] * 65536) + (regs[SLEEP_TIME_ADDR + 1] * 256)
    + regs[SLEEP_TIME_ADDR + 2]

\* The last operation has put the poke of the third sleep-time register on
\* the line.
SleepTimeWritten ==
  \E i \in 1..Len(Frames(wire)) : Frames(wire)[i][1] = SLEEP_TIME_ADDR + 2

\* The last operation has put the sleep-arm command on the line.
ArmSent ==
  \E i \in 1..Len(Frames(wire)) : Frames(wire)[i] = <<CTRL_0_ADDR, 255, 1, 0>>

\* round(secs / (1.024 * f / EXP_RTC_PERIOD)), halves rounded up.
RoundedTicks(secs, f) ==
  LET qr == QuotRem(secs, 109375, 16 * f)
  IN qr[1] + ((qr[2] + (8 * f)) \div (16 * f))

\* C4: whenever go_to_sleep(seconds) writes the sleep-time registers, the
\* value written is round(seconds / (1.024 * factor)) for the duration the
\* caller requested and the factor held at that write.
C4_TicksFromRequestedSeconds ==
  (last.op = "go_to_sleep" /\ SleepTimeWritten)
    => SleepTime = RoundedTicks(requested, clk_cal_factor)

\* What the last calibrate() measured: entry 4 less entry 1 of its
\* capture, in units of 1/EXP_RTC_PERIOD.
Measured == last.pulses[5][2] - last.pulses[2][2]

\* The last operation is a calibrate() that came to its end with a capture
\* of at least 5 entries.
CalibratedFromCapture ==
  last.op = "calibrate" /\ last.cal = "done" /\ Len(last.pulses) >= 5

\* C5 as claimed: the held factor is always strictly between 0.75 and 1.25.
C5_FactorStrictlyInside ==
  (4 * clk_cal_factor > 3 * EXP_RTC_PERIOD)
    /\ (4 * clk_cal_factor < 5 * EXP_RTC_PERIOD)

\* C5 (amended): the held factor f always satisfies 0.75 <= f <= 1.25; a
\* measured factor of exactly 0.75 or 1.25 is kept, and a measured factor
\* below 0.75 or above 1.25 is discarded, the factor becoming 1.
C5_FactorInClosedRange ==
  /\ 4 * clk_cal_factor >= 3 * EXP_RTC_PERIOD
  /\ 4 * clk_cal_factor <= 5 * EXP_RTC_PERIOD
  /\ CalibratedFromCapture =>
       /\ (4 * Measured = 3 * EXP_RTC_PERIOD \/ 4 * Measured = 5 * EXP_RTC_PERIOD)
            => clk_cal_factor = Measured
       /\ (4 * Measured < 3 * EXP_RTC_PERIOD \/ 4 * Measured > 5 * EXP_RTC_PERIOD)
            => clk_cal_factor = EXP_RTC_PERIOD

\* A calibrate() has measured exactly 0.75 and holds it.
C5_Witness ==
  /\ CalibratedFromCapture
  /\ 4 * Measured = 3 * EXP_RTC_PERIOD
  /\ clk_cal_factor = Measured

\* C6: a calibrate() whose capture has at least 5 entries leaves the factor
\* (capture[4] - capture[1]) / EXP_RTC_PERIOD if that is in the accepted
\* range, and 1 otherwise: a difference of EXP_RTC_PERIOD gives exactly 1,
\* and a difference of twice EXP_RTC_PERIOD (a factor of 2) gives 1.
C6_FactorFromCapture ==
  CalibratedFromCapture =>
    /\ clk_cal_factor =
         (IF 4 * Measured >= 3 * EXP_RTC_PERIOD
               /\ 4 * Measured <= 5 * EXP_RTC_PERIOD
          THEN Measured ELSE EXP_RTC_PERIOD)
    /\ Measured = EXP_RTC_PERIOD => clk_cal_factor = EXP_RTC_PERIOD
    /\ Measured = 2 * EXP_RTC_PERIOD => clk_cal_factor = EXP_RTC_PERIOD

\* A calibrate() has measured 1.2 and holds it.
C6_Witness ==
  /\ CalibratedFromCapture
  /\ 5 * Measured = 6 * EXP_RTC_PERIOD
  /\ clk_cal_factor = Measured

\* The line events w show a capture that returned and the UART re-opened.
CapturedAndReopened(w) ==
  /\ \E i \in 1..Len(w) : w[i].ev = "capture"
  /\ \E i \in 1..Len(w) : w[i].ev = "init"

\* C7: a calibrate() whose capture returns fewer than 5 entries (the UART
\* re-opening after it) ends without raising and leaves the factor as it
\* was, whatever earlier calibrations made it.
C7_ShortCaptureKeepsFactor ==
  [][(last'.op = "calibrate" /\ CapturedAndReopened(wire')
        /\ Len(last'.pulses) < 5)
       => (~last'.exc /\ last'.cal = "done"
             /\ clk_cal_factor' = clk_cal_factor)]_vars

\* A calibrate() with a capture of 4 entries has ended with the factor
\* still 1.2.
C7_Witness ==
  /\ last.op = "calibrate" /\ last.cal = "done" /\ ~last.exc
  /\ Len(last.pulses) = 4
  /\ 5 * clk_cal_factor = 6 * EXP_RTC_PERIOD

\* C8: a pass of go_to_sleep whose calibrate() raised still ends without an
\* exception, with the sleep-time registers written from the factor held
\* before and the sleep-arm bit set.
C8_FailedCalibrationStillArms ==
  (last.op = "go_to_sleep" /\ last.cal # "done") =>
    /\ ~last.exc
    /\ SleepTimeWritten
    /\ SleepTime = RoundedTicks(last.arg, clk_cal_factor)
    /\ ArmSent
    /\ Bit(regs[CTRL_0_ADDR], 0) = 1

\* The read requests among the line events w: <<>> for read(), <<n>> for
\* read(n).
ReadRequests(w) ==
  LET IsRead(e) == e.ev = "read"
      rs == SelectSeq(w, IsRead)
  IN [i \in 1..Len(rs) |-> rs[i].data]

\* C11: peek(a) sends the frame {a, 0xFF, 0x00, 0x00}, asks the transport
\* for an echo of exactly 7 bytes, and returns the byte at index 6 of it (the
\* register's content).
C11_PeekRequestsSevenBytes ==
  last.op = "peek" =>
    /\ Frames(wire) = <<(<<last.addr, 255, 0, 0>>)>>
    /\ ReadRequests(wire) = <<(<<7>>)>>
    /\ ~last.exc
    /\ last.ret = <<regs[last.addr]>>

\* C12: for the status byte s in the wake-status register, get_wake_status
\* reports the timer cause iff bit 4 of s is set, the power-on cause iff bit
\* 5 is set, and the levels P10 = bit 0, P17 = bit 1, P18 = bit 3, each 0 or
\* 1; bits 2, 6 and 7 of s show in no field.
C12_WakeStatusFields ==
  last.op = "get_wake_status" =>
    /\ ~last.exc
    /\ (BitAnd(last.ret[1], TIMER_WAKE) # 0) <=> (Bit(last.old, 4) = 1)
    /\ (BitAnd(last.ret[1], POWER_ON_WAKE) # 0) <=> (Bit(last.old, 5) = 1)
    /\ last.ret[1] = (TIMER_WAKE * Bit(last.old, 4))
                       + (POWER_ON_WAKE * Bit(last.old, 5))
    /\ last.ret[2] = Bit(last.old, 0)
    /\ last.ret[3] = Bit(last.old, 1)
    /\ last.ret[4] = Bit(last.old, 3)
    /\ regs[WAKE_STATUS_ADDR] = last.old

\* The status 0b11010101 (bits 0, 2, 4, 6, 7) has been decoded to the timer
\* cause alone and P10 = 1, P17 = 0, P18 = 0.
C12_Witness ==
  /\ last.op = "get_wake_status" /\ last.old = 213
  /\ last.ret = <<16, 1, 0, 0>>

\* C13: two collections of valid identifiers that hold the same identifiers
\* (in any order, with any repetitions) get the same mask from
\* _create_pin_mask.
C13_MaskOfSameIdentifiers ==
  (last.op = "_create_pin_mask" /\ prev.op = "_create_pin_mask"
     /\ AllValid(last.pins) /\ IdSet(last.pins) = IdSet(prev.pins))
    => (~last.exc /\ ~prev.exc /\ last.ret = prev.ret)

\* ['P18', 'P17'] has given 0x0A, as ['P17', 'P18'] gave before it.
C13_Witness ==
  /\ last.op = "_create_pin_mask" /\ prev.op = "_create_pin_mask"
  /\ prev.pins = PinList(<<"P17", "P18">>)
  /\ last.pins = PinList(<<"P18", "P17">>)
  /\ prev.ret = <<10>> /\ last.ret = <<10>>

\* 524.288 / volts rounded to the nearest integer (halves away from zero),
\* for the voltage mv in millivolts.
NearestRegValue(mv) ==
  LET amv == IF mv < 0 THEN 0 - mv ELSE mv
      q == (1048576 + amv) \div (2 * amv)
  IN IF mv < 0 THEN 0 - q ELSE q

\* The only frame the last operation sent is a poke of value (its low 8
\* bits) to the minimum-battery register.
OnePokeToMinBat(value) ==
  Frames(wire) = <<(<<MIN_BAT_ADDR, 0, value % 256, 0>>)>>

IsSync(w, i) ==
  /\ w[i] = Event("tx", <<SYNC_BYTE>>)
  /\ i >= 2 /\ w[i - 1].ev = "break"

\* Event i of the line events w is a command frame of 4 bytes, right after
\* one break and the sync byte.
IsFramedCommand(w, i) ==
  /\ w[i].ev = "tx" /\ Len(w[i].data) = 4
  /\ \A k \in 1..4 : w[i].data[k] \in 0..255
  /\ i >= 3 /\ IsSync(w, i - 1)
  /\ i >= 4 => w[i - 3].ev # "break"

\* C14: whatever the driver writes to the transport is the sync byte 0x55
\* right after a break, or a frame of exactly 4 bytes, each in 0..255, right
\* after one break and the sync byte, with nothing written or read in
\* between.
C14_FramesFollowBreakAndSync ==
  \A i \in 1..Len(wire) :
    wire[i].ev = "tx" => (IsSync(wire, i) \/ IsFramedCommand(wire, i))

\* A pass of go_to_sleep has sent its five frames: the calibration trigger,
\* three sleep-time bytes and the sleep-arm command.
C14_Witness ==
  /\ last.op = "go_to_sleep" /\ Len(Frames(wire)) = 5
  /\ \A i \in 1..Len(wire) :
       (wire[i].ev = "tx" /\ Len(wire[i].data) = 4) => IsFramedCommand(wire, i)

\* Nothing is written on the line events w between a deinit and the next
\* re-initialisation.
NoWriteWhileCapturing(w) ==
  \A i \in 1..Len(w) : \A j \in (i + 1)..Len(w) :
    (w[i].ev = "deinit" /\ w[j].ev \in {"break", "tx"})
      => \E k \in (i + 1)..(j - 1) : w[k].ev = "init"

\* C15: once the calibration attempt of a pass of go_to_sleep has ended,
\* also one whose capture or re-initialisation failed, the UART is
\* initialised for the sleep-time writes and the sleep-arm command of the
\* pass (nothing after calibrate() re-opens it, so it is then as it is at
\* the end of the pass); and no break, sync byte or frame is written between
\* the deinit and the re-initialisation.
C15_TransportBackAfterCalibration ==
  /\ last.op = "go_to_sleep" => uartUp
  /\ NoWriteWhileCapturing(wire)

\* The frames of the last operation other than the calibration trigger.
SleepFrames ==
  LET NotTrigger(f) == f # <<CTRL_0_ADDR, 255, 4, 0>>
  IN SelectSeq(Frames(wire), NotTrigger)

\* The frames that write the 24-bit value t most significant byte first
\* and then set the sleep-arm bit.
WriteThenArm(t) ==
  <<(<<SLEEP_TIME_ADDR, 0, (t \div 65536) % 256, 0>>),
    (<<SLEEP_TIME_ADDR + 1, 0, (t \div 256) % 256, 0>>),
    (<<SLEEP_TIME_ADDR + 2, 0, t % 256, 0>>),
    (<<CTRL_0_ADDR, 255, 1, 0>>)>>

\* C16: the frames a pass of go_to_sleep sends after its calibration are,
\* in this order, the pokes of (t >> 16) & 0xFF to 0x42, (t >> 8) & 0xFF to
\* 0x43 and t & 0xFF to 0x44, and then the setting of bit 0 of 0x45, for the
\* tick value t of the pass; the arm command is never there without the
\* three pokes before it, and the three registers then hold t (t < 2^24).
C16_ThreeBytesThenArm ==
  last.op = "go_to_sleep" =>
    /\ Len(SleepFrames) <= 4
    /\ \A i \in 1..Len(SleepFrames) : SleepFrames[i] = WriteThenArm(seconds)[i]
    /\ (uartUp /\ ~last.exc) => SleepFrames = WriteThenArm(seconds)
    /\ ArmSent => (SleepTime = seconds /\ Bit(regs[CTRL_0_ADDR], 0) = 1)

\* go_to_sleep(100000) has written 97656 = 0x017D78 and armed the sleep.
C16_Witness ==
  /\ last.op = "go_to_sleep" /\ requested = 100000 /\ seconds = 97656
  /\ regs[SLEEP_TIME_ADDR] = 1
  /\ regs[SLEEP_TIME_ADDR + 1] = 125
  /\ regs[SLEEP_TIME_ADDR + 2] = 120
  /\ ArmSent

\* The steps of a calibration on the line: break, sync byte, the trigger
\* frame {0x45, 0xFF, 0x04, 0x00}, deinit, a capture bounded by 50 samples,
\* re-initialisation.
CalibrationSteps ==
  <<Event("break", <<BREAK_LEN>>),
    Event("tx", <<SYNC_BYTE>>),
    Event("tx", <<CTRL_0_ADDR, 255, 4, 0>>),
    Event("deinit", <<>>),
    Event("capture", <<50>>),
    Event("init", <<>>)>>

\* C17: a calibrate() called with the UART initialised does, in this order
\* and as far as it gets: break, 0x55, the trigger frame, deinit, the capture
\* with a bound of 50, re-init (all six when it comes to its end); and no
\* calibrate() reads the transport.
C17_CalibrateStepOrder ==
  [][last'.op = "calibrate" =>
       /\ \A i \in 1..Len(wire') : wire'[i].ev # "read"
       /\ uartUp =>
            /\ Len(wire') <= 6
            /\ \A i \in 1..Len(wire') : wire'[i] = CalibrationSteps[i]
            /\ last'.cal = "done" => wire' = CalibrationSteps]_vars

\* A calibrate() has come to its end with the six steps on the line.
C17_Witness ==
  /\ last.op = "calibrate" /\ last.cal = "done"
  /\ wire = CalibrationSteps

\* C18: go_to_sleep does not return: from inside its loop the only steps
\* are another pass, which starts with a calibration attempt and stays in
\* the loop unless a register write raised, and the chip cutting the power
\* after an arm command.
C18_LoopHasNoExit ==
  [][pc = "loop" =>
       /\ pc' \in {"loop", "raised", "asleep"}
       /\ pc' = "raised" => last'.exc
       /\ pc' = "asleep" => ArmSent
       /\ (pc' # "asleep" /\ last' # last) =>
            /\ last'.op = "go_to_sleep" /\ last'.cal # "none"
            /\ ~last'.exc => pc' = "loop"]_vars

\* A second pass has followed the arm command of the first, and the loop
\* goes on.
C18_Witness ==
  /\ pc = "loop" /\ passes = 2
  /\ last.op = "go_to_sleep" /\ ~last.exc /\ ArmSent

\* The register each pin operation is for.
OwnRegister(op) ==
  IF op \in {"enable_pullups", "disable_pullups"} THEN WPUA_ADDR
  ELSE IF op \in {"enable_wake_on_raise", "disable_wake_on_raise"}
    THEN IOCAP_ADDR
  ELSE IOCAN_ADDR

\* The bit positions outside {0, 1, 3}.
OtherBits == {2, 4, 5, 6, 7}

\* C19: a pin operation called with valid identifiers sends exactly one
\* frame, to its own register (0x09 for the pull-ups, 0x1A for the rising
\* edge, 0x1B for the falling edge), setting or clearing no bit outside
\* positions 0, 1 and 3: bits 2 and 4..7 of that register and every other
\* register are as before.
C19_PinOpsTouchPinBitsOnly ==
  [][(last'.op \in PinOps /\ AllValid(last'.pins)) =>
       /\ ~last'.exc
       /\ Len(Frames(wire')) = 1
       /\ Frames(wire')[1][1] = OwnRegister(last'.op)
       /\ \A i \in OtherBits : Bit(last'.arg, i) = 0
       /\ Frames(wire')[1] \in
            {<<OwnRegister(last'.op), 255, last'.arg, 0>>,
             <<OwnRegister(last'.op), 255 - last'.arg, 0, 0>>}
       /\ \A i \in OtherBits :
            Bit(regs'[OwnRegister(last'.op)], i)
              = Bit(regs[OwnRegister(last'.op)], i)
       /\ \A b \in Addrs \ {OwnRegister(last'.op)} : regs'[b] = regs[b]]_vars

\* enable_wake_on_fall(['G30', 'P17', 'G17']) has set bits 1 and 3 of 0x1B,
\* which held 0xA5, and nothing else.
C19_Witness ==
  /\ last.op = "enable_wake_on_fall"
  /\ last.pins = PinList(<<"G30", "P17", "G17">>)
  /\ last.old = 165
  /\ regs[IOCAN_ADDR] = 175
  /\ Frames(wire) = <<(<<IOCAN_ADDR, 255, 10, 0>>)>>

====
